---------------------------- MODULE Spec2Model ----------------------------
(***************************************************************************)
(* Model of extras/multi_axis_probe.py: the probing session of the         *)
(* multi-axis bouncing probe (ProbeSessionHelper), the per-axis endstop    *)
(* wrappers it holds (ProbeEndstopWrapper) and the bounce refinement.      *)
(*                                                                         *)
(* Lengths are integers in units of 0.001 mm and speeds in units of        *)
(* 0.001 mm/s, so that the code's factors 0.1, 3.0 and 2.0 are exact on    *)
(* the speeds the model draws (multiples of 1.0 mm/s).  Averages are exact *)
(* rationals <<numerator, denominator>> in lowest terms.  Floating-point   *)
(* rounding is not modelled.                                               *)
(***************************************************************************)
EXTENDS Integers, Sequences, FiniteSets, TLC

\* ------------------------------------------------------------------ bounds

\* Largest configured number of samples per point.
MaxSamples == 3
\* Largest configured number of tolerance retries.
MaxRetries == 1
\* Number of run_probe calls one behaviour may make.
MaxRuns == 2

\* --------------------------------------------------------- program constants

bounce_count == 3
\* bouncing_speed * 0.1, as a division by DecayDivisor
DecayDivisor == 10
\* bouncing_retract_dist = bouncing_speed * 3.0
RetractFactor == 3
\* bouncing_lift_speed = bouncing_speed * 2.0
LiftFactor == 2

\* ------------------------------------------------------------ direction table

Axes == {0, 1, 2}

direction_types ==
    [d \in {"x+", "x-", "y+", "y-", "z+", "z-"} |->
        CASE d = "x+" -> <<0, 1>>
          [] d = "x-" -> <<0, -1>>
          [] d = "y+" -> <<1, 1>>
          [] d = "y-" -> <<1, -1>>
          [] d = "z+" -> <<2, 1>>
          [] d = "z-" -> <<2, -1>>]

Directions == DOMAIN direction_types

\* A symbol that is not in the table, as a caller may pass one.
BadDirection == "w+"

AxisOf(d) == direction_types[d][1]

SenseOf(d) == direction_types[d][2]

\* The default of every `direction` parameter.
DefaultDirection == "z-"

\* ------------------------------------------------------------------ positions

\* Position p with the coordinate of `axis` replaced (list item assignment).
SetAxis(p, axis, v) == [p EXCEPT ![axis + 1] = v]

Coord(p, axis) == p[axis + 1]

SeqMax(s) == CHOOSE m \in {s[i] : i \in 1..Len(s)} : \A i \in 1..Len(s) : s[i] <= m

SeqMin(s) == CHOOSE m \in {s[i] : i \in 1..Len(s)} : \A i \in 1..Len(s) : m <= s[i]

\* ------------------------------------------------------------ exact rationals

Abs(n) == IF n < 0 THEN -n ELSE n

RECURSIVE Gcd(_, _)
Gcd(a, b) == IF b = 0 THEN a ELSE Gcd(b, a % b)

\* n / d in lowest terms, d > 0.
Rat(n, d) ==
    LET g == Gcd(Abs(n), d)
    IN  IF n = 0 THEN <<0, 1>> ELSE <<n \div g, d \div g>>

\* The sum over the least common denominator, which keeps the intermediate
\* products small.  The operands are bound as values, x and y, so that each is
\* evaluated once however deep the sum that produced it.
RatAdd(a, b) ==
    LET Sum(x, y) ==
            LET g == Gcd(x[2], y[2])
            IN  Rat(x[1] * (y[2] \div g) + y[1] * (x[2] \div g), (x[2] \div g) * y[2])
    IN  CHOOSE sum \in {Sum(x, y) : x \in {a}, y \in {b}} : TRUE

RatSub(a, b) == Rat(a[1] * b[2] - b[1] * a[2], a[2] * b[2])

RatMul(a, b) == Rat(a[1] * b[1], a[2] * b[2])

RatDivInt(a, n) == Rat(a[1], a[2] * n)

RatLeq(a, b) == a[1] * b[2] <= b[1] * a[2]

RatLess(a, b) == a[1] * b[2] < b[1] * a[2]

\* A measured position (integers) as a position of rationals.
ToRat(p) == [i \in 1..3 |-> <<p[i], 1>>]

ToRatSeq(ps) == [k \in 1..Len(ps) |-> ToRat(ps[k])]

RECURSIVE RatSum(_, _, _)
RatSum(ps, i, k) ==
    IF k = 0 THEN <<0, 1>> ELSE RatAdd(RatSum(ps, i, k - 1), ps[k][i])

\* ------------------------------------------------------------ sample statistics

\* ProbeSessionHelper._calc_mean: the per-coordinate mean of all three
\* coordinates.
_calc_mean(ps) ==
    [i \in 1..3 |-> RatDivInt(RatSum(ps, i, Len(ps)), Len(ps))]

\* Mutant of InsertSorted: an element goes before the elements of equal key, so
\* that the sort is not stable.
RECURSIVE InsertSortedBeforeEqual(_, _, _)
InsertSortedBeforeEqual(s, e, axis) ==
    IF s = <<>> THEN <<e>>
    ELSE IF RatLeq(Coord(e, axis), Coord(s[1], axis))
         THEN <<e>> \o s
         ELSE <<s[1]>> \o InsertSortedBeforeEqual(Tail(s), e, axis)

\* sorted(..., key): a stable insertion of element e into the sorted s.  The
\* list and the element are bound as values, t and x, so that each is evaluated
\* once however deep the sort that produced it.
RECURSIVE InsertSorted(_, _, _)
InsertSorted(s, e, axis) ==
    LET Insert(t, x) ==
            IF t = <<>> THEN <<x>>
            ELSE IF RatLess(Coord(x, axis), Coord(t[1], axis))
                 THEN <<x>> \o t
                 ELSE <<t[1]>> \o InsertSorted(Tail(t), x, axis)
    IN  CHOOSE sorted \in {Insert(t, x) : t \in {s}, x \in {e}} : TRUE

RECURSIVE SortedBy(_, _, _)
SortedBy(ps, axis, k) ==
    IF k = 0 THEN <<>>
    ELSE InsertSorted(SortedBy(ps, axis, k - 1), ps[k], axis)

\* ProbeSessionHelper._calc_median
_calc_median(ps, axis) ==
    LET axis_sorted == SortedBy(ps, axis, Len(ps))
        middle == Len(ps) \div 2
    IN  IF Len(ps) % 2 = 1
        THEN axis_sorted[middle + 1]
        ELSE _calc_mean(SubSeq(axis_sorted, middle, middle + 1))

\* Mutant of _calculate_results: the configured method is ignored.
_calculate_results_mean_only(ps, samples_result, axis) == _calc_mean(ps)

\* ProbeSessionHelper._calculate_results
_calculate_results(ps, samples_result, axis) ==
    IF samples_result = "median" THEN _calc_median(ps, axis) ELSE _calc_mean(ps)

\* ------------------------------------------------------------ configuration

\* The speed the configuration sets (5.0 mm/s, the default); a command may
\* override it.
Speeds == {5000}

\* samples_tolerance values the configuration may set (0.1 and 0.2 mm).
Tolerances == {100, 200}

\* What ProbeSessionHelper.__init__ reads from the configuration.
Configs ==
    [speed : Speeds,
     lift_speed : {3000},
     max_distance : {10000},
     sample_count : 1..MaxSamples,
     sample_retract_dist : {2000},
     samples_result : {"average", "median"},
     samples_tolerance : Tolerances,
     samples_retries : 0..MaxRetries]

\* The one configuration of the specification of the whole session interface:
\* two samples per point, one retry, so that every path of run_probe exists.
SessionConfigs ==
    {c \in Configs : /\ c.speed = 5000
                     /\ c.sample_count = 2
                     /\ c.samples_result = "average"
                     /\ c.samples_tolerance = 100
                     /\ c.samples_retries = 1}

\* The parameters of a g-code command: a map from parameter name to value.
NoOverrides == [n \in {} |-> 0]

Gcmds == {NoOverrides, [PROBE_SPEED |-> 1000, MAX_DISTANCE |-> 5000]}

\* gcmd.get / get_int / get_float with a default
Get(gcmd, name, default) ==
    IF name \in DOMAIN gcmd THEN gcmd[name] ELSE default

\* ---------------------------------------------------------------- environment

\* toolhead.get_kinematics().get_status()
kin_status ==
    [axis_minimum |-> <<0, 0, 0>>, axis_maximum |-> <<40000, 40000, 40000>>]

\* Where the toolhead is when the model starts.
StartPosition == <<20000, 20000, 20000>>

\* Coordinates at which the sensor may trigger: a surface below the start, read
\* with noise, and a surface above it.
Readings == {12000, 12200, 12500, 28000}

\* The coordinates at which a contact-detect move from `from` to `to` may stop.
Contacts(from, to) ==
    {c \in Readings : (from <= c /\ c <= to) \/ (to <= c /\ c <= from)}

\* ----------------------------------------------------------------------- state

VARIABLES
    \* ProbeSessionHelper
    config, multi_probe_pending, results,
    \* ProbeEndstopWrapper (one per axis, all read the same configuration)
    stow_on_each_sample, multi, script_log,
    \* toolhead
    toolhead_pos, homed_axes,
    \* where the session helper is: "idle" between calls, else inside run_probe
    pc,
    \* locals of run_probe
    direction, params, start_position, retries, positions,
    \* locals of _bouncing_probe
    probe_start, bounces, bouncing_speed, bouncing_lift_speed, pos,
    \* what the callers and collaborators see
    call, error, returned, logged, last_move, cycles, emitted, n_samples,
    \* counters
    runs, n_appended, n_returned,
    \* the command in progress (cmd_PROBE_ACCURACY or ProbePointsHelper.start_probe),
    \* where it is, how it ended, and its locals
    cmd, cmd_pc, cmd_error, cmd_direction, sample_count, probe_num, probe_points,
    \* what the command pulled, what it reported, what it passed to the
    \* finalize callback, the results of the current pass, and the sessions it
    \* began and ended
    pulled, report, callbacks, taken, n_begins, n_ends,
    \* the input and the output of one call of a statistics helper
    stat

const_vars == <<config, stow_on_each_sample, homed_axes>>

session_vars == <<multi_probe_pending, results>>

frame_vars == <<direction, params, start_position, retries, positions>>

bounce_vars == <<probe_start, bounces, bouncing_speed, bouncing_lift_speed, pos>>

motion_vars == <<toolhead_pos, last_move>>

log_vars == <<cycles, emitted, n_samples>>

count_vars == <<runs, n_appended, n_returned>>

cmd_vars ==
    <<cmd, cmd_pc, cmd_error, cmd_direction, sample_count, probe_num, probe_points,
      pulled, report, callbacks, taken, n_begins, n_ends>>

vars ==
    <<const_vars, session_vars, multi, script_log, motion_vars, pc, frame_vars, bounce_vars,
      call, error, returned, logged, log_vars, count_vars, cmd_vars, stat>>

NoMove == [op |-> "none", site |-> "none", coord |-> StartPosition, speed |-> 0]

\* ProbeSessionHelper.get_probe_params
get_probe_params(gcmd) ==
    [probe_speed |-> Get(gcmd, "PROBE_SPEED", config.speed),
     lift_speed |-> Get(gcmd, "LIFT_SPEED", config.lift_speed),
     max_distance |-> Get(gcmd, "MAX_DISTANCE", config.max_distance),
     samples |-> Get(gcmd, "SAMPLES", config.sample_count),
     sample_retract_dist |->
         Get(gcmd, "SAMPLE_RETRACT_DIST", config.sample_retract_dist),
     samples_tolerance |-> Get(gcmd, "SAMPLES_TOLERANCE", config.samples_tolerance),
     samples_tolerance_retries |->
         Get(gcmd, "SAMPLES_TOLERANCE_RETRIES", config.samples_retries),
     samples_result |-> Get(gcmd, "SAMPLES_RESULT", config.samples_result)]

\* The state after construction, with the axes the toolhead reports as homed
\* drawn from `homed`.
InitHomed(configs, stows, homed) ==
    /\ config \in configs
    /\ multi_probe_pending = FALSE
    /\ results = <<>>
    /\ stow_on_each_sample \in stows
    /\ multi = [a \in Axes |-> "OFF"]
    /\ script_log = <<>>
    /\ toolhead_pos = StartPosition
    /\ homed_axes \in homed
    /\ pc = "idle"
    /\ direction = DefaultDirection
    /\ params = get_probe_params(NoOverrides)
    /\ start_position = StartPosition
    /\ retries = 0
    /\ positions = <<>>
    /\ probe_start = StartPosition
    /\ bounces = 0
    /\ bouncing_speed = 0
    /\ bouncing_lift_speed = 0
    /\ pos = StartPosition
    /\ call = "none"
    /\ error = "none"
    /\ returned = <<>>
    /\ logged = FALSE
    /\ last_move = NoMove
    /\ cycles = <<>>
    /\ emitted = <<>>
    /\ n_samples = 0
    /\ runs = 0
    /\ n_appended = 0
    /\ n_returned = 0

\* The state after construction with every axis homed, or with z not homed.
InitWith(configs, stows) == InitHomed(configs, stows, {{0, 1, 2}, {0, 1}})

NoReport == [computed |-> FALSE]

\* No command has been received.
NoCommand(points) ==
    /\ cmd = "none"
    /\ cmd_pc = "none"
    /\ cmd_error = "none"
    /\ cmd_direction = DefaultDirection
    /\ sample_count = 0
    /\ probe_num = 0
    /\ probe_points \in points
    /\ pulled = <<>>
    /\ report = NoReport
    /\ callbacks = <<>>
    /\ taken = <<>>
    /\ n_begins = 0
    /\ n_ends = 0

NoStat == [op |-> "none"]

Init == InitWith(SessionConfigs, BOOLEAN) /\ NoCommand({<<>>}) /\ stat = NoStat

\* ------------------------------------------------------ ProbeEndstopWrapper

\* ProbeEndstopWrapper.multi_probe_begin on the wrapper of `axis`
multi_probe_begin(m, axis) ==
    IF stow_on_each_sample THEN m ELSE [m EXCEPT ![axis] = "FIRST"]

\* What a script does when it is run: nothing to the toolhead, an error of its
\* own, or a move of the toolhead to the height ParkZ.
Scripts == {"ok", "raises", "moves"}

ParkZ == 21000

\* toolhead.get_position() once the script has run
AfterScript(script, position) ==
    IF script = "moves" THEN [position EXCEPT ![3] = ParkZ] ELSE position

\* _raise_probe and _lower_probe raise when the script raises, or when it has
\* returned and the toolhead is not where it was before the script.
ScriptRaises(script, position) ==
    script = "raises" \/ AfterScript(script, position) # position

\* multi_probe_end raises when _raise_probe does, and only when it calls it.
multi_probe_end_raises(script) ==
    ~stow_on_each_sample /\ ScriptRaises(script, toolhead_pos)

\* Where multi_probe_end leaves the toolhead
multi_probe_end_position(script) ==
    IF stow_on_each_sample THEN toolhead_pos ELSE AfterScript(script, toolhead_pos)

\* The scripts run so far, of which the last two are kept: the three wrappers
\* are built from one configuration section and run the same activate_gcode
\* and deactivate_gcode.
Ran(log, script) ==
    LET all == Append(log, script)
    IN  IF Len(all) > 2 THEN Tail(all) ELSE all

\* _lower_probe runs the activate script, then raises if the toolhead moved.
_lower_probe(log) == Ran(log, "activate_gcode")

\* _raise_probe runs the deactivate script, then raises if the toolhead moved.
_raise_probe(log) == Ran(log, "deactivate_gcode")

\* The scripts multi_probe_end runs
multi_probe_end_scripts(log) ==
    IF stow_on_each_sample THEN log ELSE _raise_probe(log)

\* ProbeEndstopWrapper.multi_probe_end on the wrapper of `axis`
multi_probe_end(m, axis, script) ==
    IF stow_on_each_sample \/ ScriptRaises(script, toolhead_pos) THEN m
    ELSE [m EXCEPT ![axis] = "OFF"]

\* ------------------------------------------------------- ProbeSessionHelper

\* A call that raises before it changes anything.
Rejected(name, kind) ==
    /\ call' = name
    /\ error' = kind
    /\ returned' = <<>>
    /\ logged' = FALSE
    /\ UNCHANGED <<const_vars, session_vars, multi, script_log, motion_vars, pc, frame_vars,
                   bounce_vars, log_vars, count_vars>>

\* Mutant of start_probe_session: the pending check is missing, so a second
\* begin starts over and clears the buffer.
start_probe_session_unchecked(dir) ==
    /\ pc = "idle"
    /\ IF dir \notin Directions
       THEN Rejected("start_probe_session", "KeyError")
       ELSE /\ multi' = multi_probe_begin(multi, AxisOf(dir))
            /\ UNCHANGED script_log
            /\ multi_probe_pending' = TRUE
            /\ results' = <<>>
            /\ call' = "start_probe_session"
            /\ error' = "none"
            /\ returned' = <<>>
            /\ logged' = FALSE
            /\ UNCHANGED <<const_vars, motion_vars, pc, frame_vars, bounce_vars,
                           log_vars, count_vars>>

\* ProbeSessionHelper.start_probe_session
start_probe_session(dir) ==
    /\ pc = "idle"
    /\ IF multi_probe_pending
       THEN Rejected("start_probe_session", "state")
       ELSE IF dir \notin Directions
       THEN Rejected("start_probe_session", "KeyError")
       ELSE /\ multi' = multi_probe_begin(multi, AxisOf(dir))
            /\ UNCHANGED script_log
            /\ multi_probe_pending' = TRUE
            /\ results' = <<>>
            /\ call' = "start_probe_session"
            /\ error' = "none"
            /\ returned' = <<>>
            /\ logged' = FALSE
            /\ UNCHANGED <<const_vars, motion_vars, pc, frame_vars, bounce_vars,
                           log_vars, count_vars>>

\* The body of end_probe_session once the pending check has passed.
EndSession(dir, script) ==
    /\ results' = <<>>
    /\ multi_probe_pending' = FALSE
    /\ multi' = multi_probe_end(multi, AxisOf(dir), script)
    /\ script_log' = multi_probe_end_scripts(script_log)
    /\ toolhead_pos' = multi_probe_end_position(script)

\* ProbeSessionHelper.end_probe_session
end_probe_session(dir, script) ==
    /\ pc = "idle"
    /\ IF ~multi_probe_pending
       THEN Rejected("end_probe_session", "state")
       ELSE IF dir \notin Directions
       THEN Rejected("end_probe_session", "KeyError")
       ELSE /\ EndSession(dir, script)
            /\ call' = "end_probe_session"
            /\ error' = IF multi_probe_end_raises(script) THEN "deactivate" ELSE "none"
            /\ returned' = <<>>
            /\ logged' = FALSE
            /\ UNCHANGED <<const_vars, last_move, pc, frame_vars, bounce_vars,
                           log_vars, count_vars>>

\* Mutant of _handle_command_error: no try/except around the forced end, so
\* what multi_probe_end raises leaves the handler.
_handle_command_error_no_try(script) ==
    /\ pc = "idle"
    /\ call' = "_handle_command_error"
    /\ returned' = <<>>
    /\ logged' = FALSE
    /\ IF multi_probe_pending
       THEN /\ EndSession(DefaultDirection, script)
            /\ error' = IF multi_probe_end_raises(script) THEN "deactivate" ELSE "none"
       ELSE /\ error' = "none"
            /\ UNCHANGED <<session_vars, multi, script_log, toolhead_pos>>
    /\ UNCHANGED <<const_vars, last_move, pc, frame_vars, bounce_vars,
                   log_vars, count_vars>>

\* ProbeSessionHelper._handle_command_error: the forced end calls
\* end_probe_session() with its default direction and logs what it raises.
_handle_command_error(script) ==
    /\ pc = "idle"
    /\ call' = "_handle_command_error"
    /\ error' = "none"
    /\ returned' = <<>>
    /\ IF multi_probe_pending
       THEN /\ EndSession(DefaultDirection, script)
            /\ logged' = multi_probe_end_raises(script)
       ELSE /\ logged' = FALSE
            /\ UNCHANGED <<session_vars, multi, script_log, toolhead_pos>>
    /\ UNCHANGED <<const_vars, last_move, pc, frame_vars, bounce_vars,
                   log_vars, count_vars>>

\* Mutant of pull_probed_results: the buffer is returned but not emptied.
pull_probed_results_keep ==
    /\ pc = "idle"
    /\ returned' = results
    /\ n_returned' = n_returned + Len(results)
    /\ call' = "pull_probed_results"
    /\ error' = "none"
    /\ logged' = FALSE
    /\ UNCHANGED <<const_vars, session_vars, multi, script_log, motion_vars, pc,
                   frame_vars, bounce_vars, log_vars, runs, n_appended>>

\* ProbeSessionHelper.pull_probed_results
pull_probed_results ==
    /\ pc = "idle"
    /\ returned' = results
    /\ results' = <<>>
    /\ n_returned' = n_returned + Len(results)
    /\ call' = "pull_probed_results"
    /\ error' = "none"
    /\ logged' = FALSE
    /\ UNCHANGED <<const_vars, multi_probe_pending, multi, script_log, motion_vars, pc,
                   frame_vars, bounce_vars, log_vars, runs, n_appended>>

\* The locals of run_probe and _bouncing_probe hold nothing between calls.
NoFrame ==
    /\ direction' = DefaultDirection
    /\ params' = get_probe_params(NoOverrides)
    /\ start_position' = StartPosition
    /\ retries' = 0
    /\ positions' = <<>>
    /\ probe_start' = StartPosition
    /\ bounces' = 0
    /\ bouncing_speed' = 0
    /\ bouncing_lift_speed' = 0
    /\ pos' = StartPosition

\* Mutant of Abort: an exception leaving run_probe also ends the session and
\* drops the results.
AbortEndingSession(kind) ==
    /\ pc' = "idle"
    /\ error' = kind
    /\ NoFrame
    /\ cycles' = <<>>
    /\ emitted' = <<>>
    /\ n_samples' = 0
    /\ results' = <<>>
    /\ multi_probe_pending' = FALSE
    /\ UNCHANGED <<const_vars, multi, script_log, call, returned, logged, count_vars>>

\* An exception leaves run_probe: the session's fields stay as they are.  The
\* logs of the call (cycles, emitted, n_samples) end with it.
Abort(kind) ==
    /\ pc' = "idle"
    /\ error' = kind
    /\ NoFrame
    /\ cycles' = <<>>
    /\ emitted' = <<>>
    /\ n_samples' = 0
    /\ UNCHANGED <<const_vars, session_vars, multi, script_log, call, returned, logged,
                   count_vars>>

\* ProbeSessionHelper.run_probe, up to the first pass of its sampling loop
run_probe(dir, gcmd) ==
    /\ pc = "idle"
    /\ IF ~multi_probe_pending
       THEN Rejected("run_probe", "state")
       ELSE IF dir \notin Directions
       THEN Rejected("run_probe", "direction")
       ELSE /\ call' = "run_probe"
            /\ error' = "none"
            /\ returned' = <<>>
            /\ runs' = runs + 1
            /\ direction' = dir
            /\ params' = get_probe_params(gcmd)
            /\ start_position' = toolhead_pos
            /\ retries' = 0
            /\ positions' = <<>>
            /\ cycles' = <<>>
            /\ emitted' = <<>>
            /\ n_samples' = 0
            /\ pc' = "bouncing_probe"
            /\ logged' = FALSE
            /\ UNCHANGED <<const_vars, session_vars, multi, script_log, motion_vars,
                           bounce_vars, n_appended, n_returned>>

\* ProbeSessionHelper._bouncing_probe, up to its loop
bouncing_probe_begin ==
    /\ pc = "bouncing_probe"
    /\ probe_start' = toolhead_pos
    /\ bounces' = 0
    /\ bouncing_speed' = params.probe_speed
    /\ bouncing_lift_speed' = params.probe_speed * LiftFactor
    /\ cycles' = <<>>
    /\ emitted' = <<>>
    /\ pc' = "probe"
    /\ UNCHANGED <<const_vars, session_vars, multi, script_log, motion_vars, frame_vars, pos,
                   call, error, returned, logged, n_samples, count_vars>>

\* Mutant of check_homed_raises: only x and y are looked up.
check_homed_raises_xy == ~({0, 1} \subseteq homed_axes)

\* ProbeSessionHelper.check_homed
check_homed_raises == ~({0, 1, 2} \subseteq homed_axes)

Min(a, b) == IF a <= b THEN a ELSE b

Max(a, b) == IF a >= b THEN a ELSE b

\* ProbeSessionHelper._get_target_position
_get_target_position(dir) ==
    LET axis == AxisOf(dir)
        p == toolhead_pos
    IN  IF SenseOf(dir) > 0
        THEN SetAxis(p, axis, Min(Coord(p, axis) + config.max_distance,
                                  Coord(kin_status.axis_maximum, axis)))
        ELSE SetAxis(p, axis, Max(Coord(p, axis) - config.max_distance,
                                  Coord(kin_status.axis_minimum, axis)))

\* A contact-detect move that ends without a trigger; <<TRUE, c>> is one that
\* stops at coordinate c.
NoTrigger == <<FALSE, 0>>

\* What the contact-detect move of the current cycle may do: stop at a reading
\* between the toolhead and the target, or reach the target untriggered.
ProbingMoveOutcomes ==
    IF pc = "probe"
    THEN {NoTrigger} \cup
         {<<TRUE, c>> :
             c \in Contacts(Coord(toolhead_pos, AxisOf(direction)),
                            Coord(_get_target_position(direction), AxisOf(direction)))}
    ELSE {}

\* ProbeSessionHelper._probe, as called by one cycle of _bouncing_probe
_probe(outcome) ==
    /\ pc = "probe"
    /\ IF check_homed_raises
       THEN /\ Abort("unhomed")
            /\ UNCHANGED motion_vars
       ELSE LET target == _get_target_position(direction)
                move == [op |-> "probing_move", site |-> "_probe",
                         coord |-> target, speed |-> bouncing_speed]
            IN  IF ~outcome[1]
                THEN /\ Abort("timeout")
                     /\ toolhead_pos' = target
                     /\ last_move' = move
                ELSE LET epos == SetAxis(toolhead_pos, AxisOf(direction), outcome[2])
                     IN  /\ pos' = epos
                         /\ toolhead_pos' = epos
                         /\ last_move' = move
                         /\ cycles' = Append(cycles, [speed |-> bouncing_speed,
                                                      contact |-> epos])
                         /\ pc' = "lift"
                         /\ UNCHANGED <<const_vars, session_vars, multi, script_log, frame_vars,
                                        probe_start, bounces, bouncing_speed,
                                        bouncing_lift_speed, call, error, returned,
                                        logged, emitted, n_samples, count_vars>>

\* Mutant of DecayedSpeed: the speed is halved.
DecayedSpeedHalf(v) == v \div LiftFactor

\* The speed of the next cycle: bouncing_speed * 0.1
DecayedSpeed(v) == v \div DecayDivisor

\* Mutant of BouncingRetractDist: three times the cycle's own approach speed.
BouncingRetractDistUndecayed(decayed) == decayed * DecayDivisor * RetractFactor

\* bouncing_retract_dist, from the speed already decayed
BouncingRetractDist(decayed) == decayed * RetractFactor

\* One cycle of _bouncing_probe after its contact: decay, retract, count.
bounce_lift ==
    /\ pc = "lift"
    /\ LET axis == AxisOf(direction)
           sense == SenseOf(direction)
           decayed == DecayedSpeed(bouncing_speed)
           liftpos == SetAxis(probe_start, axis,
                              Coord(pos, axis) - sense * BouncingRetractDist(decayed))
       IN  /\ bouncing_speed' = decayed
           /\ probe_start' = liftpos
           /\ toolhead_pos' = liftpos
           /\ last_move' = [op |-> "manual_move", site |-> "_bouncing_probe",
                            coord |-> liftpos, speed |-> bouncing_lift_speed]
           /\ bounces' = bounces + 1
           /\ pc' = IF bounces + 1 < bounce_count THEN "probe" ELSE "emit"
    /\ UNCHANGED <<const_vars, session_vars, multi, script_log, frame_vars, bouncing_lift_speed,
                   pos, call, error, returned, logged, log_vars, count_vars>>

\* Mutant of bouncing_probe_return: the event and the return value carry the
\* toolhead's position after the retract, not the contact position.
bouncing_probe_return_liftpos ==
    /\ pc = "emit"
    /\ emitted' = Append(emitted, toolhead_pos)
    /\ n_samples' = n_samples + 1
    /\ positions' = Append(positions, toolhead_pos)
    /\ pc' = "check"
    /\ UNCHANGED <<const_vars, session_vars, multi, script_log, motion_vars, direction, params,
                   start_position, retries, bounce_vars, call, error, returned,
                   logged, cycles, count_vars>>

\* The end of _bouncing_probe and the append of what it returns in run_probe.
bouncing_probe_return ==
    /\ pc = "emit"
    /\ emitted' = Append(emitted, pos)
    /\ n_samples' = n_samples + 1
    /\ positions' = Append(positions, pos)
    /\ pc' = "check"
    /\ UNCHANGED <<const_vars, session_vars, multi, script_log, motion_vars, direction, params,
                   start_position, retries, bounce_vars, call, error, returned,
                   logged, cycles, count_vars>>

\* max(axis_positions) - min(axis_positions) > samples_tolerance
ExceedsTolerance(ps, axis, tolerance) ==
    LET axis_positions == [k \in 1..Len(ps) |-> Coord(ps[k], axis)]
    IN  SeqMax(axis_positions) - SeqMin(axis_positions) > tolerance

\* Mutant of RetriesExhausted: one retry too many.
RetriesExhaustedLate(used, allowed) == used > allowed

\* retries >= samples_tolerance_retries
RetriesExhausted(used, allowed) == used >= allowed

\* Mutant of check_tolerance: a retried violation drops only the last sample.
check_tolerance_drop_outlier ==
    /\ pc = "check"
    /\ IF ExceedsTolerance(positions, AxisOf(direction), params.samples_tolerance)
       THEN IF RetriesExhausted(retries, params.samples_tolerance_retries)
            THEN /\ Abort("tolerance")
                 /\ UNCHANGED motion_vars
            ELSE /\ retries' = retries + 1
                 /\ positions' = SubSeq(positions, 1, Len(positions) - 1)
                 /\ pc' = "retract"
                 /\ UNCHANGED <<const_vars, session_vars, multi, script_log, motion_vars,
                                direction, params, start_position, bounce_vars, call,
                                error, returned, logged, log_vars, count_vars>>
       ELSE /\ pc' = IF Len(positions) < params.samples THEN "retract" ELSE "calculate"
            /\ UNCHANGED <<const_vars, session_vars, multi, script_log, motion_vars, frame_vars,
                           bounce_vars, call, error, returned, logged, log_vars,
                           count_vars>>

\* Mutant of check_tolerance: a retried violation goes on with the next bounce
\* refinement at once (a `continue`), without the retract.
check_tolerance_continue ==
    /\ pc = "check"
    /\ IF ExceedsTolerance(positions, AxisOf(direction), params.samples_tolerance)
       THEN IF RetriesExhausted(retries, params.samples_tolerance_retries)
            THEN /\ Abort("tolerance")
                 /\ UNCHANGED motion_vars
            ELSE /\ retries' = retries + 1
                 /\ positions' = <<>>
                 /\ pc' = "bouncing_probe"
                 /\ UNCHANGED <<const_vars, session_vars, multi, script_log, motion_vars,
                                direction, params, start_position, bounce_vars, call,
                                error, returned, logged, log_vars, count_vars>>
       ELSE /\ pc' = IF Len(positions) < params.samples THEN "retract" ELSE "calculate"
            /\ UNCHANGED <<const_vars, session_vars, multi, script_log, motion_vars, frame_vars,
                           bounce_vars, call, error, returned, logged, log_vars,
                           count_vars>>

\* Mutant of check_tolerance: the loop goes on while the buffer holds at most
\* sample_count samples (`<=` for `<`), one sample more per attempt.
check_tolerance_one_more ==
    /\ pc = "check"
    /\ IF ExceedsTolerance(positions, AxisOf(direction), params.samples_tolerance)
       THEN IF RetriesExhausted(retries, params.samples_tolerance_retries)
            THEN /\ Abort("tolerance")
                 /\ UNCHANGED motion_vars
            ELSE /\ retries' = retries + 1
                 /\ positions' = <<>>
                 /\ pc' = "retract"
                 /\ UNCHANGED <<const_vars, session_vars, multi, script_log, motion_vars,
                                direction, params, start_position, bounce_vars, call,
                                error, returned, logged, log_vars, count_vars>>
       ELSE /\ pc' = IF Len(positions) <= params.samples THEN "retract" ELSE "calculate"
            /\ UNCHANGED <<const_vars, session_vars, multi, script_log, motion_vars, frame_vars,
                           bounce_vars, call, error, returned, logged, log_vars,
                           count_vars>>

\* The tolerance check of run_probe's loop
check_tolerance ==
    /\ pc = "check"
    /\ IF ExceedsTolerance(positions, AxisOf(direction), params.samples_tolerance)
       THEN IF RetriesExhausted(retries, params.samples_tolerance_retries)
            THEN /\ Abort("tolerance")
                 /\ UNCHANGED motion_vars
            ELSE /\ retries' = retries + 1
                 /\ positions' = <<>>
                 /\ pc' = "retract"
                 /\ UNCHANGED <<const_vars, session_vars, multi, script_log, motion_vars,
                                direction, params, start_position, bounce_vars, call,
                                error, returned, logged, log_vars, count_vars>>
       ELSE /\ pc' = IF Len(positions) < params.samples THEN "retract" ELSE "calculate"
            /\ UNCHANGED <<const_vars, session_vars, multi, script_log, motion_vars, frame_vars,
                           bounce_vars, call, error, returned, logged, log_vars,
                           count_vars>>

\* Mutant of sample_retract: the distance is taken from where the toolhead
\* stands, not from the contact position.
sample_retract_from_toolhead ==
    /\ pc = "retract"
    /\ LET axis == AxisOf(direction)
           liftpos == SetAxis(start_position, axis,
                              Coord(toolhead_pos, axis)
                                  - SenseOf(direction) * params.sample_retract_dist)
       IN  /\ start_position' = liftpos
           /\ toolhead_pos' = liftpos
           /\ last_move' = [op |-> "manual_move", site |-> "run_probe",
                            coord |-> liftpos, speed |-> params.lift_speed]
    /\ pc' = "bouncing_probe"
    /\ UNCHANGED <<const_vars, session_vars, multi, script_log, direction, params, retries,
                   positions, bounce_vars, call, error, returned, logged, log_vars,
                   count_vars>>

\* The retract of run_probe's loop, taken while samples are still missing
sample_retract ==
    /\ pc = "retract"
    /\ LET axis == AxisOf(direction)
           liftpos == SetAxis(start_position, axis,
                              Coord(pos, axis)
                                  - SenseOf(direction) * params.sample_retract_dist)
       IN  /\ start_position' = liftpos
           /\ toolhead_pos' = liftpos
           /\ last_move' = [op |-> "manual_move", site |-> "run_probe",
                            coord |-> liftpos, speed |-> params.lift_speed]
    /\ pc' = "bouncing_probe"
    /\ UNCHANGED <<const_vars, session_vars, multi, script_log, direction, params, retries,
                   positions, bounce_vars, call, error, returned, logged, log_vars,
                   count_vars>>

\* The end of run_probe: aggregate and append
calculate_result ==
    /\ pc = "calculate"
    /\ results' = Append(results,
                         _calculate_results(ToRatSeq(positions), params.samples_result,
                                            AxisOf(direction)))
    /\ n_appended' = n_appended + 1
    /\ pc' = "idle"
    /\ NoFrame
    /\ cycles' = <<>>
    /\ emitted' = <<>>
    /\ n_samples' = 0
    /\ UNCHANGED <<const_vars, multi_probe_pending, multi, script_log, motion_vars, call, error,
                   returned, logged, runs, n_returned>>

\* ------------------------------------------------------------- specification

\* A step of the session helper itself: the locals of the command that called
\* it, if any, and the statistics helpers' call stay as they are.
SessionStep == UNCHANGED <<cmd_vars, stat>>

\* What the scripts do under Spec: they leave the toolhead where it is.
SessionScripts == {"ok", "raises"}

\* A call of the session interface, with every direction a caller may pass.
SessionCall ==
    \/ \E dir \in Directions \cup {BadDirection} :
           start_probe_session(dir) /\ SessionStep
    \/ \E dir \in Directions \cup {BadDirection}, script \in SessionScripts :
           end_probe_session(dir, script) /\ SessionStep
    \/ \E script \in SessionScripts : _handle_command_error(script) /\ SessionStep
    \/ pull_probed_results /\ SessionStep

\* A step inside run_probe.
RunStep ==
    \/ bouncing_probe_begin /\ SessionStep
    \/ \E outcome \in ProbingMoveOutcomes : _probe(outcome) /\ SessionStep
    \/ bounce_lift /\ SessionStep
    \/ bouncing_probe_return /\ SessionStep
    \/ check_tolerance /\ SessionStep
    \/ sample_retract /\ SessionStep
    \/ calculate_result /\ SessionStep

\* The directions run_probe is called with under Spec: two axes, both senses.
SessionRunDirections == {"x+", "z-"}

\* The whole session interface under one configuration, called directly: no
\* command runs, and at most MaxRuns calls of run_probe are made.
Next ==
    \/ SessionCall
    \/ \E dir \in SessionRunDirections \cup {BadDirection} :
           runs < MaxRuns /\ run_probe(dir, NoOverrides) /\ SessionStep
    \/ RunStep

Spec == Init /\ [][Next]_vars

\* The toolhead's homed_axes status is read anew by every check_homed: any
\* axis may lose its homing (its motor is switched off) between two reads.  The
\* loss is taken right before the read that sees it.
homing_lost ==
    /\ pc = "probe"
    /\ \E axis \in homed_axes : homed_axes' = homed_axes \ {axis}
    /\ UNCHANGED <<config, stow_on_each_sample, session_vars, multi, script_log, motion_vars, pc,
                   frame_vars, bounce_vars, call, error, returned, logged, log_vars,
                   count_vars, cmd_vars, stat>>

\* One run_probe per behaviour, under every configuration, with the endstop
\* wrappers' default deactivate_on_each_sample, from every set of homed axes.
ProbeInit ==
    InitHomed(Configs, {TRUE}, SUBSET Axes) /\ NoCommand({<<>>}) /\ stat = NoStat

ProbeNext ==
    \/ \E dir \in Directions : start_probe_session(dir) /\ SessionStep
    \/ \E dir \in Directions, gcmd \in Gcmds :
           runs = 0 /\ run_probe(dir, gcmd) /\ SessionStep
    \/ RunStep
    \/ homing_lost

ProbeSpec == ProbeInit /\ [][ProbeNext]_vars

\* ------------------------------------------------------------- the commands
\* cmd_PROBE_ACCURACY and ProbePointsHelper.start_probe drive the session; one
\* command runs per behaviour.

\* The state of the session helper, the endstop wrappers and the toolhead.
helper_vars ==
    <<const_vars, session_vars, multi, script_log, motion_vars, pc, frame_vars, bounce_vars,
      call, error, returned, logged, log_vars, count_vars>>

\* An exception leaves the command: nothing more of it runs.
CommandFails(kind) ==
    /\ cmd_pc' = "failed"
    /\ cmd_error' = kind

\* calc_probe_average, on positions of exact rationals
RECURSIVE calc_probe_average(_, _)
calc_probe_average(ps, method) ==
    IF method # "median"
    THEN [i \in 1..3 |-> RatDivInt(RatSum(ps, i, Len(ps)), Len(ps))]
    ELSE LET z_sorted == SortedBy(ps, 2, Len(ps))
             middle == Len(ps) \div 2
         IN  IF Len(ps) % 2 = 1
             THEN z_sorted[middle + 1]
             ELSE calc_probe_average(SubSeq(z_sorted, middle, middle + 1), "average")

\* max([p[axis] for p in positions])
RatSeqMax(ps, axis) ==
    LET vs == {Coord(ps[k], axis) : k \in 1..Len(ps)}
    IN  CHOOSE m \in vs : \A v \in vs : RatLeq(v, m)

\* min([p[axis] for p in positions])
RatSeqMin(ps, axis) ==
    LET vs == {Coord(ps[k], axis) : k \in 1..Len(ps)}
    IN  CHOOSE m \in vs : \A v \in vs : RatLeq(m, v)

\* The loop of cmd_PROBE_ACCURACY that adds up the squared deviations: the
\* coordinate read is positions[i][2], whatever the axis.
RECURSIVE deviation_sum(_, _, _)
deviation_sum(ps, avg_value, k) ==
    IF k = 0 THEN <<0, 1>>
    ELSE LET d == RatSub(ps[k][3], avg_value)
         IN  RatAdd(deviation_sum(ps, avg_value, k - 1), RatMul(d, d))

\* What cmd_PROBE_ACCURACY reports.  The code reports sigma, the square root
\* of deviation_sum / len(positions); the model keeps the radicand.
AccuracyReport(ps, axis) ==
    LET max_value == RatSeqMax(ps, axis)
        min_value == RatSeqMin(ps, axis)
        avg_value == Coord(calc_probe_average(ps, "average"), axis)
    IN  [computed |-> TRUE,
         max_value |-> max_value,
         min_value |-> min_value,
         range_value |-> RatSub(max_value, min_value),
         avg_value |-> avg_value,
         median |-> Coord(calc_probe_average(ps, "median"), axis),
         sigma_squared |-> RatDivInt(deviation_sum(ps, avg_value, Len(ps)), Len(ps))]

\* The DIRECTION and SAMPLES parameters PROBE_ACCURACY is given.
AccuracyDirections == {"x-", "y+", "z-"}

AccuracyCounts == {1, 3}

\* The dummy command with SAMPLES=1
fo_gcmd == [SAMPLES |-> 1]

\* cmd_PROBE_ACCURACY, up to its loop
cmd_PROBE_ACCURACY(dir, count) ==
    /\ cmd = "none"
    /\ start_probe_session(dir)
    /\ cmd' = "PROBE_ACCURACY"
    /\ cmd_direction' = dir
    /\ sample_count' = count
    /\ probe_num' = 0
    /\ IF error' = "none"
       THEN cmd_pc' = "loop" /\ cmd_error' = "none" /\ n_begins' = n_begins + 1
       ELSE CommandFails(error') /\ UNCHANGED n_begins
    /\ UNCHANGED <<probe_points, pulled, report, callbacks, taken, n_ends, stat>>

\* The call of run_probe in the loop of cmd_PROBE_ACCURACY
accuracy_run_probe ==
    /\ cmd = "PROBE_ACCURACY"
    /\ cmd_pc = "loop"
    /\ probe_num < sample_count
    /\ run_probe(cmd_direction, fo_gcmd)
    /\ cmd_pc' = "run_probe"
    /\ UNCHANGED <<cmd, cmd_error, cmd_direction, sample_count, probe_num,
                   probe_points, pulled, report, callbacks, taken, n_begins, n_ends,
                   stat>>

\* The rest of the loop body, once run_probe has returned: count and retract
\* from where the toolhead stands.
accuracy_retract ==
    /\ cmd = "PROBE_ACCURACY"
    /\ cmd_pc = "run_probe"
    /\ pc = "idle"
    /\ IF error # "none"
       THEN /\ CommandFails(error)
            /\ UNCHANGED <<helper_vars, probe_num>>
       ELSE LET axis == AxisOf(cmd_direction)
                cmd_params == get_probe_params([SAMPLES |-> sample_count])
                liftpos == SetAxis(toolhead_pos, axis,
                                   Coord(toolhead_pos, axis)
                                       - SenseOf(cmd_direction)
                                             * cmd_params.sample_retract_dist)
            IN  /\ probe_num' = probe_num + 1
                /\ toolhead_pos' = liftpos
                /\ last_move' = [op |-> "manual_move", site |-> "cmd_PROBE_ACCURACY",
                                 coord |-> liftpos, speed |-> cmd_params.lift_speed]
                /\ cmd_pc' = "loop"
                /\ UNCHANGED <<const_vars, session_vars, multi, script_log, pc, frame_vars,
                               bounce_vars, call, error, returned, logged, log_vars,
                               count_vars, cmd_error>>
    /\ UNCHANGED <<cmd, cmd_direction, sample_count, probe_points, pulled, report,
                   callbacks, taken, n_begins, n_ends, stat>>

\* The pull after the loop
accuracy_pull ==
    /\ cmd = "PROBE_ACCURACY"
    /\ cmd_pc = "loop"
    /\ probe_num >= sample_count
    /\ pull_probed_results
    /\ pulled' = results
    /\ cmd_pc' = "pulled"
    /\ UNCHANGED <<cmd, cmd_error, cmd_direction, sample_count, probe_num,
                   probe_points, report, callbacks, taken, n_begins, n_ends, stat>>

\* The message that names positions[0], positions[1] and positions[2], which
\* raises IndexError on fewer than three results, and the end of the session.
accuracy_end(script) ==
    /\ cmd = "PROBE_ACCURACY"
    /\ cmd_pc = "pulled"
    /\ IF Len(pulled) < 3
       THEN /\ CommandFails("IndexError")
            /\ UNCHANGED <<helper_vars, n_ends>>
       ELSE /\ end_probe_session(cmd_direction, script)
            /\ IF error' = "none"
               THEN cmd_pc' = "ended" /\ n_ends' = n_ends + 1 /\ UNCHANGED cmd_error
               ELSE CommandFails(error') /\ UNCHANGED n_ends
    /\ UNCHANGED <<cmd, cmd_direction, sample_count, probe_num, probe_points, pulled,
                   report, callbacks, taken, n_begins, stat>>

\* The statistics of the pulled results and their report
accuracy_report ==
    /\ cmd = "PROBE_ACCURACY"
    /\ cmd_pc = "ended"
    /\ report' = AccuracyReport(pulled, AxisOf(cmd_direction))
    /\ cmd_pc' = "done"
    /\ UNCHANGED <<helper_vars, cmd, cmd_error, cmd_direction, sample_count,
                   probe_num, probe_points, pulled, callbacks, taken, n_begins,
                   n_ends, stat>>

\* The DIRECTION parameter PROBE is given: the default and another axis.
SingleProbeDirections == {"z-", "x+"}

\* cmd_PROBE, up to the call of run_probe in run_single_probe: the session is
\* begun with start_probe_session(gcmd), that is with the default direction,
\* whatever DIRECTION says.
cmd_PROBE(dir) ==
    /\ cmd = "none"
    /\ start_probe_session(DefaultDirection)
    /\ cmd' = "PROBE"
    /\ cmd_direction' = dir
    /\ IF error' = "none"
       THEN cmd_pc' = "call_run_probe" /\ cmd_error' = "none"
            /\ n_begins' = n_begins + 1
       ELSE CommandFails(error') /\ UNCHANGED n_begins
    /\ UNCHANGED <<sample_count, probe_num, probe_points, pulled, report, callbacks,
                   taken, n_ends, stat>>

\* probe_session.run_probe(gcmd, direction) in run_single_probe
single_run_probe ==
    /\ cmd = "PROBE"
    /\ cmd_pc = "call_run_probe"
    /\ run_probe(cmd_direction, NoOverrides)
    /\ cmd_pc' = "run_probe"
    /\ UNCHANGED <<cmd, cmd_error, cmd_direction, sample_count, probe_num,
                   probe_points, pulled, report, callbacks, taken, n_begins, n_ends,
                   stat>>

\* run_probe has returned: pos = probe_session.pull_probed_results()[0]
single_pull ==
    /\ cmd = "PROBE"
    /\ cmd_pc = "run_probe"
    /\ pc = "idle"
    /\ IF error # "none"
       THEN /\ CommandFails(error)
            /\ UNCHANGED <<helper_vars, pulled>>
       ELSE /\ pull_probed_results
            /\ pulled' = results
            /\ cmd_pc' = "pulled"
            /\ UNCHANGED cmd_error
    /\ UNCHANGED <<cmd, cmd_direction, sample_count, probe_num, probe_points, report,
                   callbacks, taken, n_begins, n_ends, stat>>

\* probe_session.end_probe_session(), with the default direction, and the rest
\* of cmd_PROBE: the result is reported and its z kept as last_z_result.
single_end(script) ==
    /\ cmd = "PROBE"
    /\ cmd_pc = "pulled"
    /\ end_probe_session(DefaultDirection, script)
    /\ IF error' = "none"
       THEN /\ cmd_pc' = "done"
            /\ n_ends' = n_ends + 1
            /\ report' = [computed |-> FALSE, result |-> pulled[1],
                          last_z_result |-> pulled[1][3]]
            /\ UNCHANGED cmd_error
       ELSE /\ CommandFails(error')
            /\ UNCHANGED <<n_ends, report>>
    /\ UNCHANGED <<cmd, cmd_direction, sample_count, probe_num, probe_points, pulled,
                   callbacks, taken, n_begins, stat>>

\* Largest number of passes of a sweep: the finalize callback answers "retry"
\* at most MaxPasses - 1 times.
MaxPasses == 2

\* ProbePointsHelper: horizontal_move_z (20 mm here), speed (default 50 mm/s)
\* and the probe's z_offset.
horizontal_move_z == 20000

points_speed == 50000

z_offset == 0

\* The XY points a sweep is configured with: none, one or two.
PointLists == {<<>>, <<<<10000, 10000>>>>, <<<<10000, 10000>>, <<30000, 10000>>>>}

\* The points and the minimum update_probe_points is called with.
UpdatedPointLists == {<<>>, <<<<5000, 5000>>>>}

MinimumPoints == {0, 1}

\* ProbePointsHelper.update_probe_points, between the commands: the points are
\* assigned before minimum_points raises config_error on too few of them.
update_probe_points(points, min_points) ==
    /\ cmd = "none"
    /\ probe_points' = points
    /\ cmd_error' = IF Len(points) < min_points THEN "config_error" ELSE "none"
    /\ UNCHANGED <<helper_vars, cmd, cmd_pc, cmd_direction, sample_count, probe_num,
                   pulled, report, callbacks, taken, n_begins, n_ends, stat>>

\* A coordinate given as None (no coordinate of the model is negative).
None == -1

\* toolhead.manual_move(coord, speed): a coordinate that is None, or beyond the
\* end of coord, stays as it is.
ManualMove(coord, speed, site) ==
    LET target == [i \in 1..3 |->
                      IF i <= Len(coord) /\ coord[i] # None THEN coord[i]
                      ELSE toolhead_pos[i]]
    IN  /\ toolhead_pos' = target
        /\ last_move' = [op |-> "manual_move", site |-> site, coord |-> target,
                         speed |-> speed]

\* ProbePointsHelper.start_probe, up to its loop
start_probe ==
    /\ cmd = "none"
    /\ cmd' = "start_probe"
    /\ cmd_direction' = DefaultDirection
    /\ probe_num' = 0
    /\ IF horizontal_move_z < z_offset
       THEN /\ pc = "idle"
            /\ CommandFails("horizontal_move_z")
            /\ UNCHANGED <<helper_vars, n_begins>>
       ELSE /\ start_probe_session(DefaultDirection)
            /\ IF error' = "none"
               THEN cmd_pc' = "raise_tool" /\ cmd_error' = "none"
                    /\ n_begins' = n_begins + 1
               ELSE CommandFails(error') /\ UNCHANGED n_begins
    /\ UNCHANGED <<sample_count, probe_points, pulled, report, callbacks, taken,
                   n_ends, stat>>

\* _raise_tool at the top of the loop: full speed before the first point only.
sweep_raise_tool ==
    /\ cmd = "start_probe"
    /\ cmd_pc = "raise_tool"
    /\ ManualMove(<<None, None, horizontal_move_z>>,
                  IF probe_num = 0 THEN points_speed
                  ELSE get_probe_params(NoOverrides).lift_speed,
                  "_raise_tool")
    /\ cmd_pc' = IF probe_num >= Len(probe_points) THEN "finalize" ELSE "move_next"
    /\ UNCHANGED <<const_vars, session_vars, multi, script_log, pc, frame_vars, bounce_vars, call,
                   error, returned, logged, log_vars, count_vars>>
    /\ UNCHANGED <<cmd, cmd_error, cmd_direction, sample_count, probe_num,
                   probe_points, pulled, report, callbacks, taken, n_begins, n_ends,
                   stat>>

\* Mutant of NextProbeNum: a retry resumes at the last point.
NextProbeNumResume(done, num) ==
    IF done \/ num = 0 THEN num ELSE num - 1

\* probe_num after the callback: a retry restarts at the first point.
NextProbeNum(done, num) == IF done THEN num ELSE 0

\* After the last point: pull the results and invoke the finalize callback,
\* which answers "retry" or something else.
sweep_finalize(answer) ==
    /\ cmd = "start_probe"
    /\ cmd_pc = "finalize"
    /\ answer = "retry" => Len(callbacks) + 1 < MaxPasses
    /\ pull_probed_results
    /\ pulled' = results
    /\ callbacks' = Append(callbacks, [results |-> results, taken |-> taken,
                                       answer |-> answer])
    /\ LET done == answer # "retry"
       IN  /\ probe_num' = NextProbeNum(done, probe_num)
           /\ cmd_pc' = IF done THEN "end" ELSE "move_next"
           /\ taken' = IF done THEN taken ELSE <<>>
    /\ UNCHANGED <<cmd, cmd_error, cmd_direction, sample_count, probe_points, report,
                   n_begins, n_ends, stat>>

\* _move_next: to the XY of the next point (use_offsets is off).
\* probe_points[probe_num] raises IndexError when there is no such point, which
\* is after a "retry" of a sweep over no points.
sweep_move_next ==
    /\ cmd = "start_probe"
    /\ cmd_pc = "move_next"
    /\ IF probe_num >= Len(probe_points)
       THEN /\ CommandFails("IndexError")
            /\ UNCHANGED helper_vars
       ELSE /\ ManualMove(probe_points[probe_num + 1], points_speed, "_move_next")
            /\ cmd_pc' = "call_run_probe"
            /\ UNCHANGED <<const_vars, session_vars, multi, script_log, pc, frame_vars,
                           bounce_vars, call, error, returned, logged, log_vars,
                           count_vars, cmd_error>>
    /\ UNCHANGED <<cmd, cmd_direction, sample_count, probe_num, probe_points, pulled,
                   report, callbacks, taken, n_begins, n_ends, stat>>

\* probe_session.run_probe(gcmd), with the default direction
sweep_run_probe ==
    /\ cmd = "start_probe"
    /\ cmd_pc = "call_run_probe"
    /\ run_probe(DefaultDirection, NoOverrides)
    /\ cmd_pc' = "run_probe"
    /\ UNCHANGED <<cmd, cmd_error, cmd_direction, sample_count, probe_num,
                   probe_points, pulled, report, callbacks, taken, n_begins, n_ends,
                   stat>>

\* run_probe has returned: count the point.  `taken` notes, for the point, the
\* result run_probe appended.
sweep_probed ==
    /\ cmd = "start_probe"
    /\ cmd_pc = "run_probe"
    /\ pc = "idle"
    /\ IF error # "none"
       THEN /\ CommandFails(error)
            /\ UNCHANGED <<probe_num, taken>>
       ELSE /\ probe_num' = probe_num + 1
            /\ taken' = Append(taken, [point |-> probe_num + 1,
                                       result |-> results[Len(results)]])
            /\ cmd_pc' = "raise_tool"
            /\ UNCHANGED cmd_error
    /\ UNCHANGED <<helper_vars, cmd, cmd_direction, sample_count, probe_points,
                   pulled, report, callbacks, n_begins, n_ends, stat>>

\* probe_session.end_probe_session() after the loop
sweep_end(script) ==
    /\ cmd = "start_probe"
    /\ cmd_pc = "end"
    /\ end_probe_session(DefaultDirection, script)
    /\ IF error' = "none"
       THEN cmd_pc' = "done" /\ n_ends' = n_ends + 1 /\ UNCHANGED cmd_error
       ELSE CommandFails(error') /\ UNCHANGED n_ends
    /\ UNCHANGED <<cmd, cmd_direction, sample_count, probe_num, probe_points, pulled,
                   report, callbacks, taken, n_begins, stat>>

\* The errors raised as printer.command_error or gcmd.error: the g-code
\* dispatcher answers them with the gcode:command_error event.
CommandErrors == {"state", "direction", "timeout", "unhomed", "tolerance",
                  "deactivate", "horizontal_move_z"}

\* The gcode:command_error event after a command that failed
command_error_event(script) ==
    /\ cmd_pc = "failed"
    /\ cmd_error \in CommandErrors
    /\ _handle_command_error(script)
    /\ cmd_pc' = "cleaned"
    /\ UNCHANGED <<cmd, cmd_error, cmd_direction, sample_count, probe_num,
                   probe_points, pulled, report, callbacks, taken, n_begins, n_ends,
                   stat>>

\* The configurations of the commands' specification: one or two samples per
\* point, no tolerance retry.
CmdConfigs ==
    {c \in Configs : /\ c.speed = 5000
                     /\ c.sample_count \in {1, 2}
                     /\ c.samples_result = "average"
                     /\ c.samples_tolerance = 200
                     /\ c.samples_retries = 0}

CmdInit == InitWith(CmdConfigs, BOOLEAN) /\ NoCommand(PointLists) /\ stat = NoStat

CmdNext ==
    \/ \E dir \in AccuracyDirections, count \in AccuracyCounts :
           cmd_PROBE_ACCURACY(dir, count)
    \/ accuracy_run_probe
    \/ accuracy_retract
    \/ accuracy_pull
    \/ \E script \in Scripts : accuracy_end(script)
    \/ accuracy_report
    \/ \E dir \in SingleProbeDirections : cmd_PROBE(dir)
    \/ single_run_probe
    \/ single_pull
    \/ \E script \in Scripts : single_end(script)
    \/ \E points \in UpdatedPointLists, min_points \in MinimumPoints :
           update_probe_points(points, min_points)
    \/ start_probe
    \/ sweep_raise_tool
    \/ \E answer \in {"retry", "done"} : sweep_finalize(answer)
    \/ sweep_move_next
    \/ sweep_run_probe
    \/ sweep_probed
    \/ \E script \in Scripts : sweep_end(script)
    \/ \E script \in Scripts : command_error_event(script)
    \/ RunStep

CmdSpec == CmdInit /\ [][CmdNext]_vars

\* ------------------------------------------------- the statistics helpers
\* _calc_mean and _calc_median applied to every short list of sample positions.

\* Largest number of sample positions handed to a statistics helper.
MaxStatLen == 4

\* Sample positions: pairs of them agree on each axis and differ elsewhere.
StatPoints ==
    {<<1000, 5000, 3000>>, <<2000, 5000, 1000>>, <<1000, 4000, 2000>>,
     <<3000, 4000, 3000>>}

StatInputs == UNION {[1..n -> StatPoints] : n \in 1..MaxStatLen}

\* Everything but the statistics helpers' call.
program_vars ==
    <<const_vars, session_vars, multi, script_log, motion_vars, pc, frame_vars, bounce_vars,
      call, error, returned, logged, log_vars, count_vars, cmd_vars>>

StatInit ==
    /\ InitWith(SessionConfigs, {TRUE})
    /\ NoCommand({<<>>})
    /\ stat \in [op : {"input"}, positions : StatInputs, axis : Axes]

\* A call of _calc_mean(positions): the argument is read, never assigned.
calc_mean_call ==
    /\ stat.op = "input"
    /\ stat' = [op |-> "_calc_mean", input |-> stat.positions,
                positions |-> stat.positions, axis |-> stat.axis,
                out |-> _calc_mean(ToRatSeq(stat.positions))]
    /\ UNCHANGED program_vars

\* A call of _calc_median(positions, axis): sorted() and the slice build new
\* lists, the argument is not assigned.
calc_median_call ==
    /\ stat.op = "input"
    /\ stat' = [op |-> "_calc_median", input |-> stat.positions,
                positions |-> stat.positions, axis |-> stat.axis,
                out |-> _calc_median(ToRatSeq(stat.positions), stat.axis)]
    /\ UNCHANGED program_vars

StatNext == calc_mean_call \/ calc_median_call

StatSpec == StatInit /\ [][StatNext]_vars

\* ------------------------------------------------------ the wrappers' hooks
\* ProbeEndstopWrapper.probe_prepare and probe_finish are public methods that
\* nothing in this file calls: no handler of a homing move's begin and end is
\* registered, and probing_move hands the move to the homing module.  In
\* WrapperSpec they are called from outside, like the session interface.

\* ProbeEndstopWrapper.probe_prepare on the wrapper of `axis`: _lower_probe
\* when multi is 'OFF' or 'FIRST', and 'FIRST' becomes 'ON' once it has returned.
probe_prepare(axis, script) ==
    /\ pc = "idle"
    /\ call' = "probe_prepare"
    /\ returned' = <<>>
    /\ logged' = FALSE
    /\ IF multi[axis] \in {"OFF", "FIRST"}
       THEN /\ script_log' = _lower_probe(script_log)
            /\ toolhead_pos' = AfterScript(script, toolhead_pos)
            /\ IF ScriptRaises(script, toolhead_pos)
               THEN error' = "activate" /\ UNCHANGED multi
               ELSE /\ error' = "none"
                    /\ multi' = IF multi[axis] = "FIRST"
                                THEN [multi EXCEPT ![axis] = "ON"]
                                ELSE multi
       ELSE /\ error' = "none"
            /\ UNCHANGED <<multi, script_log, toolhead_pos>>
    /\ UNCHANGED <<const_vars, session_vars, last_move, pc, frame_vars, bounce_vars,
                   log_vars, count_vars>>

\* ProbeEndstopWrapper.probe_finish on the wrapper of `axis`: _raise_probe when
\* multi is 'OFF'.
probe_finish(axis, script) ==
    /\ pc = "idle"
    /\ call' = "probe_finish"
    /\ returned' = <<>>
    /\ logged' = FALSE
    /\ IF multi[axis] = "OFF"
       THEN /\ script_log' = _raise_probe(script_log)
            /\ toolhead_pos' = AfterScript(script, toolhead_pos)
            /\ error' = IF ScriptRaises(script, toolhead_pos) THEN "deactivate"
                        ELSE "none"
       ELSE /\ error' = "none"
            /\ UNCHANGED <<script_log, toolhead_pos>>
    /\ UNCHANGED <<const_vars, session_vars, multi, last_move, pc, frame_vars,
                   bounce_vars, log_vars, count_vars>>

WrapperNext ==
    \/ \E dir \in Directions : start_probe_session(dir) /\ SessionStep
    \/ \E dir \in Directions, script \in Scripts :
           end_probe_session(dir, script) /\ SessionStep
    \/ \E script \in Scripts : _handle_command_error(script) /\ SessionStep
    \/ \E axis \in Axes, script \in Scripts : probe_prepare(axis, script) /\ SessionStep
    \/ \E axis \in Axes, script \in Scripts : probe_finish(axis, script) /\ SessionStep

WrapperSpec == Init /\ [][WrapperNext]_vars

\* ------------------------------------------------------------- termination
\* One run_probe whose motion primitives all return: the axes stay homed and
\* every contact-detect move stops at a reading.  A call that has begun keeps
\* executing, statement after statement, until it returns or raises.

\* The contact-detect moves that return: those that trigger.
ReturningMoveOutcomes == {outcome \in ProbingMoveOutcomes : outcome[1]}

\* One direction per sense: three readings lie below the start, one above.
TermDirections == {"z-", "x+"}

\* Every sample count, retry budget and aggregate, with the tolerance (0.2 mm)
\* that two of the three readings below the start meet.
TermConfigs == {c \in Configs : c.samples_tolerance = 200}

TermInit ==
    /\ InitWith(TermConfigs, {TRUE})
    /\ homed_axes = {0, 1, 2}
    /\ NoCommand({<<>>})
    /\ stat = NoStat

\* A step inside run_probe when every motion primitive returns.
TermRunStep ==
    \/ bouncing_probe_begin /\ SessionStep
    \/ \E outcome \in ReturningMoveOutcomes : _probe(outcome) /\ SessionStep
    \/ bounce_lift /\ SessionStep
    \/ bouncing_probe_return /\ SessionStep
    \/ check_tolerance /\ SessionStep
    \/ sample_retract /\ SessionStep
    \/ calculate_result /\ SessionStep

TermNext ==
    \/ \E dir \in TermDirections : start_probe_session(dir) /\ SessionStep
    \/ \E dir \in TermDirections :
           runs = 0 /\ run_probe(dir, NoOverrides) /\ SessionStep
    \/ TermRunStep

TermSpec == TermInit /\ [][TermNext]_vars /\ WF_vars(TermRunStep)

\* ----------------------------------------------------------------- claims

\* What a rejected call must leave alone: the pending flag, the result buffer,
\* every wrapper's multi state, and the toolhead (no motion issued).
SessionUntouched ==
    UNCHANGED <<multi_probe_pending, results, multi, toolhead_pos, last_move, pc>>

\* C1: a begin while the session is Active, and a run_probe or an end while it
\* is Idle, raise the session-state error and leave the pending flag, the
\* result buffer, every per-axis hold and the toolhead as they were.
C1_OutOfSequenceRejected ==
    [][/\ (pc = "idle" /\ call' = "start_probe_session" /\ multi_probe_pending)
           => (error' = "state" /\ SessionUntouched)
       /\ (pc = "idle" /\ call' \in {"run_probe", "end_probe_session"}
               /\ ~multi_probe_pending)
           => (error' = "state" /\ SessionUntouched)]_vars

\* A second begin was rejected while results were buffered and an axis was held.
C1_Witness ==
    /\ call = "start_probe_session"
    /\ error = "state"
    /\ multi_probe_pending
    /\ Len(results) > 0
    /\ \E a \in Axes : multi[a] = "FIRST"

\* C2 (as claimed): once a forced end has run and raised nothing, the session
\* is Idle and no axis' contact-detection capability is still held, whatever
\* direction the session was begun with.
C2_HoldReleasedOnEveryExit ==
    (pc = "idle" /\ call = "_handle_command_error" /\ ~logged)
        => (~multi_probe_pending /\ \A a \in Axes : multi[a] = "OFF")

\* C3: a command error reported while the session is Active leaves it Idle and
\* the handler raises nothing, also when the release fails inside the forced
\* end; reported while the session is Idle, it changes nothing.
C3_ForcedCleanup ==
    [][(pc = "idle" /\ call' = "_handle_command_error")
          => /\ error' = "none"
             /\ ~multi_probe_pending'
             /\ pc' = "idle"
             /\ ~multi_probe_pending => SessionUntouched]_vars

\* The release failed during a forced end; the failure was logged, the handler
\* raised nothing and the session is Idle.
C3_Witness ==
    /\ call = "_handle_command_error"
    /\ logged
    /\ error = "none"
    /\ ~multi_probe_pending

\* The spread of the samples ps along `axis` is above the tolerance.
SpreadExceeds(ps, axis, tolerance) ==
    \E i, j \in 1..Len(ps) : ps[i][axis + 1] - ps[j][axis + 1] > tolerance

\* C4: the raw sample buffer of run_probe never holds more than sampleCount
\* observations, and right after a tolerance violation that is retried it is
\* empty: every sample of the point is discarded, not only the outlier.
C4_SampleBufferBounded ==
    [][/\ Len(positions') <= params'.samples
       /\ (/\ pc = "check"
           /\ SpreadExceeds(positions, AxisOf(direction), params.samples_tolerance)
           /\ pc' # "idle")
           => positions' = <<>>]_vars

\* A violation was retried after two samples had been collected, and the
\* buffer is empty.
C4_Witness ==
    /\ pc = "retract"
    /\ retries = 1
    /\ positions = <<>>
    /\ n_samples >= 2

\* C5: a tolerance violation is fatal (ToleranceExceeded) exactly when the
\* retries already used are >= maxRetries, and only a violation raises it; a
\* retried violation uses up one retry, so that at most maxRetries restarts
\* happen in one run_probe; the failure appends no result.
C5_ToleranceRetryBudget ==
    [][/\ retries' <= params'.samples_tolerance_retries
       /\ (pc = "check"
               /\ SpreadExceeds(positions, AxisOf(direction), params.samples_tolerance))
           => /\ (pc' = "idle") <=> (retries >= params.samples_tolerance_retries)
              /\ pc' = "idle" => /\ error' = "tolerance"
                                 /\ results' = results
                                 /\ n_appended' = n_appended
              /\ pc' # "idle" => retries' = retries + 1
       /\ (pc # "idle" /\ error' = "tolerance")
           => /\ pc = "check"
              /\ SpreadExceeds(positions, AxisOf(direction),
                               params.samples_tolerance)]_vars

\* With maxRetries = 0, run_probe failed on a tolerance violation and the
\* result buffer is empty.
C5_Witness ==
    /\ pc = "idle"
    /\ call = "run_probe"
    /\ error = "tolerance"
    /\ config.samples_retries = 0
    /\ results = <<>>

RECURSIVE SumCoord(_, _, _)
SumCoord(ps, i, k) == IF k = 0 THEN 0 ELSE SumCoord(ps, i, k - 1) + ps[k][i]

\* r is the per-coordinate arithmetic mean of the measured positions ps.
IsMean(r, ps) ==
    \A i \in 1..3 :
        /\ r[i][2] > 0
        /\ r[i][1] * Len(ps) = r[i][2] * SumCoord(ps, i, Len(ps))

\* srt holds the elements of ps, each as often, in ascending order of `axis`.
IsSorted(srt, ps, axis) ==
    /\ \A e \in {ps[k] : k \in 1..Len(ps)} :
           Cardinality({k \in 1..Len(ps) : srt[k] = e})
               = Cardinality({k \in 1..Len(ps) : ps[k] = e})
    /\ \A k \in 1..(Len(ps) - 1) : srt[k][axis + 1] <= srt[k + 1][axis + 1]

\* r is the median of ps along `axis`: the middle element, or the mean of the
\* two central ones.
IsMedian(r, ps, axis) ==
    LET n == Len(ps)
    IN  \E srt \in [1..n -> {ps[k] : k \in 1..n}] :
            /\ IsSorted(srt, ps, axis)
            /\ IF n % 2 = 1
               THEN r = [i \in 1..3 |-> <<srt[(n + 1) \div 2][i], 1>>]
               ELSE IsMean(r, <<srt[n \div 2], srt[n \div 2 + 1]>>)

\* C6: a successful run_probe appends exactly one Position, the configured
\* aggregate (mean, or median along the probing axis) of the buffer, and no
\* other step of run_probe changes the result buffer.  The buffer then holds
\* sampleCount bounce results with a spread within the tolerance: it only
\* grows by the result of the bounce refinement just completed, and is only
\* emptied by a tolerance restart or the end of the call, so these are the
\* most recent ones, all taken after the last restart.
C6_ResultIsAggregateOfLastSamples ==
    [][/\ (pc \notin {"idle", "calculate"}) => results' = results
       /\ (pc # "idle" /\ pc' = "idle" /\ error' = "none") => pc = "calculate"
       /\ positions' # positions
           => \/ pc = "emit" /\ positions' = Append(positions, cycles[3].contact)
              \/ /\ positions' = <<>>
                 /\ \/ pc' = "idle"
                    \/ pc = "idle"
                    \/ pc = "check" /\ SpreadExceeds(positions, AxisOf(direction),
                                                     params.samples_tolerance)
       /\ pc = "calculate"
           => LET n == params.samples
                  axis == AxisOf(direction)
                  r == results'[Len(results')]
              IN  /\ Len(positions) = n
                  /\ n_samples >= n
                  /\ retries = 0 => n_samples = n
                  /\ ~SpreadExceeds(positions, axis, params.samples_tolerance)
                  /\ Len(results') = Len(results) + 1
                  /\ SubSeq(results', 1, Len(results)) = results
                  /\ IF params.samples_result = "median"
                     THEN IsMedian(r, positions, axis)
                     ELSE IsMean(r, positions)
                  /\ pc' = "idle"
                  /\ error' = "none"]_vars

\* Three samples taken after a restart are about to be aggregated by median;
\* they are not all equal, and earlier samples were discarded.
C6_Witness ==
    /\ pc = "calculate"
    /\ retries = 1
    /\ params.samples = 3
    /\ params.samples_result = "median"
    /\ n_samples > 3
    /\ \E i, j \in 1..3 : positions[i] # positions[j]

\* C7: pull_probed_results, in either session state, returns the buffer as it
\* stands (in append order), empties it and leaves the pending flag, the holds
\* and the toolhead alone; the results handed out by pulls plus those still
\* buffered never exceed those appended, so none is returned twice.
C7_PullConsumesOnce ==
    [][/\ n_returned' + Len(results') <= n_appended'
       /\ (pc = "idle" /\ call' = "pull_probed_results")
           => /\ error' = "none"
              /\ returned' = results
              /\ results' = <<>>
              /\ UNCHANGED <<multi_probe_pending, multi, toolhead_pos, pc>>]_vars

\* A pull in an Active session returned two different results and emptied the
\* buffer.
C7_Witness ==
    /\ call = "pull_probed_results"
    /\ multi_probe_pending
    /\ Len(returned) = 2
    /\ returned[1] # returned[2]
    /\ results = <<>>
    /\ n_returned = 2

RECURSIVE Pow(_, _)
Pow(b, e) == IF e = 0 THEN 1 ELSE b * Pow(b, e - 1)

\* The last move issued is the retract of a bounce cycle.
JustLifted == pc \in {"probe", "emit"} /\ bounces >= 1

\* C8: one bounce refinement makes exactly 3 contact-detect/retract cycles,
\* whatever the sample count, and the contact-detect move of cycle k runs at
\* the initial speed times 0.1^(k-1).
C8_ThreeCyclesDecayingSpeed ==
    /\ Len(cycles) <= 3
    /\ pc = "probe" => (Len(cycles) = bounces /\ bounces < 3)
    /\ pc = "lift" => /\ Len(cycles) = bounces + 1
                      /\ last_move.op = "probing_move"
                      /\ last_move.speed = cycles[Len(cycles)].speed
    /\ pc \in {"emit", "check", "retract", "calculate"}
           => (Len(cycles) = 3 /\ bounces = 3)
    /\ pc # "idle"
           => \A k \in 1..Len(cycles) :
                  cycles[k].speed * Pow(10, k - 1) = params.probe_speed

\* The third sample of a three-sample point has made its three cycles.
C8_Witness ==
    /\ pc = "emit"
    /\ params.samples = 3
    /\ Len(positions) = 2
    /\ Len(cycles) = 3
    /\ cycles[3].speed * 100 = params.probe_speed

\* C9 (as claimed): the retract of a cycle goes 3.0 times that cycle's approach
\* speed away from the contact position, at 2.0 times that approach speed.
C9_RetractFromApproachSpeed ==
    JustLifted
        => LET c == cycles[Len(cycles)]
               axis == AxisOf(direction)
           IN  /\ last_move.op = "manual_move"
               /\ Coord(last_move.coord, axis)
                      = Coord(c.contact, axis) - SenseOf(direction) * (c.speed * 3)
               /\ last_move.speed = c.speed * 2

\* C9 (amended): the decay is applied before the retract.  The retract goes
\* 3.0 times the decayed speed, that is 0.3 times the cycle's approach speed,
\* away from the contact position, changing no other coordinate, at 2.0 times
\* the initial speed of the refinement on every cycle.
C9_RetractFromDecayedSpeed ==
    JustLifted
        => LET c == cycles[Len(cycles)]
               axis == AxisOf(direction)
               dist == (Coord(c.contact, axis) - Coord(last_move.coord, axis))
                           * SenseOf(direction)
           IN  /\ last_move.op = "manual_move"
               /\ 10 * dist = 3 * c.speed
               /\ \A a \in Axes \ {axis} :
                      Coord(last_move.coord, a) = Coord(c.contact, a)
               /\ last_move.speed = 2 * params.probe_speed
               /\ 10 * bouncing_speed = c.speed
               /\ toolhead_pos = last_move.coord

\* The retract of the second cycle was made: its lift speed is not twice the
\* cycle's approach speed.
C9_Witness ==
    /\ JustLifted
    /\ bounces = 2
    /\ last_move.speed # 2 * cycles[2].speed

\* C10: no event is emitted before the third cycle's retract, so a refinement
\* that fails in a contact-detect move has emitted none; one that completes
\* emits exactly one event, after that retract, carrying the contact position
\* of the third contact-detect move, which is also what it returns.
C10_EventAfterThirdRetract ==
    /\ pc \in {"probe", "lift", "emit"} => emitted = <<>>
    /\ pc = "check"
           => /\ Len(cycles) = 3
              /\ bounces = 3
              /\ emitted = <<cycles[3].contact>>
              /\ positions[Len(positions)] = cycles[3].contact
              /\ last_move.op = "manual_move"
              /\ last_move.site = "_bouncing_probe"
    /\ pc \in {"retract", "calculate"} => Len(emitted) = 1

\* A refinement completed: one event, carrying the third contact position,
\* which is not where the toolhead stands after the retract.
C10_Witness ==
    /\ pc = "check"
    /\ emitted = <<pos>>
    /\ pos = cycles[3].contact
    /\ pos # toolhead_pos

\* The place of element k of ps in the stable ascending order by `axis`: after
\* the elements of smaller key and the earlier ones of equal key.
StableRank(ps, axis, k) ==
    1 + Cardinality({j \in 1..Len(ps) :
                        \/ ps[j][axis + 1] < ps[k][axis + 1]
                        \/ ps[j][axis + 1] = ps[k][axis + 1] /\ j < k})

StablySorted(ps, axis) ==
    [r \in 1..Len(ps) |-> ps[CHOOSE k \in 1..Len(ps) : StableRank(ps, axis, k) = r]]

\* C11: for every non-empty sample sequence and every axis, _calc_median
\* returns, for odd length, the middle element of the stable sort by that axis,
\* all three coordinates verbatim, and for even length the per-coordinate mean
\* of the two central elements; _calc_mean returns the per-coordinate mean;
\* neither changes its input sequence.
C11_MedianAndMean ==
    /\ stat.op = "_calc_mean"
           => /\ IsMean(stat.out, stat.input)
              /\ stat.positions = stat.input
    /\ stat.op = "_calc_median"
           => LET n == Len(stat.input)
                  srt == StablySorted(stat.input, stat.axis)
              IN  /\ IF n % 2 = 1
                     THEN stat.out = ToRat(srt[(n + 1) \div 2])
                     ELSE IsMean(stat.out, <<srt[n \div 2], srt[n \div 2 + 1]>>)
                  /\ stat.positions = stat.input

\* The median of three samples of which the first two agree on the axis and
\* differ elsewhere: the stable sort decides which one is returned.
C11_Witness ==
    /\ stat.op = "_calc_median"
    /\ Len(stat.input) = 3
    /\ stat.input[1][stat.axis + 1] = stat.input[2][stat.axis + 1]
    /\ stat.input[1] # stat.input[2]
    /\ stat.input[3][stat.axis + 1] > stat.input[1][stat.axis + 1]
    /\ stat.out = ToRat(stat.input[2])

\* The coordinates of the positions ps along `axis`.
AxisValues(ps, axis) == [k \in 1..Len(ps) |-> Coord(ps[k], axis)]

RECURSIVE SquaredDeviations(_, _, _)
SquaredDeviations(vs, m, k) ==
    IF k = 0 THEN <<0, 1>>
    ELSE LET d == RatSub(vs[k], m)
         IN  RatAdd(SquaredDeviations(vs, m, k - 1), RatMul(d, d))

RECURSIVE SumValues(_, _)
SumValues(vs, k) == IF k = 0 THEN <<0, 1>> ELSE RatAdd(SumValues(vs, k - 1), vs[k])

\* The population variance of the values vs: the mean of the squared
\* deviations from their mean.
PopulationVariance(vs) ==
    LET m == RatDivInt(SumValues(vs, Len(vs)), Len(vs))
    IN  RatDivInt(SquaredDeviations(vs, m, Len(vs)), Len(vs))

\* C12 (as claimed): the standard deviation the accuracy diagnostic reports is
\* the population standard deviation of the results' coordinate on the probing
\* axis, for every direction; stated on its square.
C12_DeviationOfProbingAxis ==
    (cmd = "PROBE_ACCURACY" /\ report.computed)
        => report.sigma_squared
               = PopulationVariance(AxisValues(pulled, AxisOf(cmd_direction)))

\* The place of value k of vs in ascending order, ties by index.
ValueRank(vs, k) ==
    1 + Cardinality({j \in 1..Len(vs) :
                        \/ RatLess(vs[j], vs[k])
                        \/ vs[j] = vs[k] /\ j < k})

\* The median of the values vs: the middle one in ascending order, or the mean
\* of the two central ones.
MedianValue(vs) ==
    LET n == Len(vs)
        srt == [r \in 1..n |-> vs[CHOOSE k \in 1..n : ValueRank(vs, k) = r]]
    IN  IF n % 2 = 1
        THEN srt[(n + 1) \div 2]
        ELSE RatDivInt(RatAdd(srt[n \div 2], srt[n \div 2 + 1]), 2)

\* C13 (as claimed): the median the accuracy diagnostic reports is the median
\* of the results' coordinate on the probing axis, for every direction.
C13_MedianOfProbingAxis ==
    (cmd = "PROBE_ACCURACY" /\ report.computed)
        => report.median = MedianValue(AxisValues(pulled, AxisOf(cmd_direction)))

\* C14 (as claimed): an accuracy diagnostic in which no probe and no other
\* collaborator fails performs N single-sample run_probe calls, pulls N results
\* and completes with the session Idle and every hold released.
C14_AccuracyClosesSession ==
    (/\ cmd = "PROBE_ACCURACY"
     /\ cmd_pc \in {"done", "failed"}
     /\ cmd_error \notin CommandErrors)
        => /\ cmd_pc = "done"
           /\ runs = sample_count
           /\ Len(pulled) = sample_count
           /\ ~multi_probe_pending
           /\ \A a \in Axes : multi[a] = "OFF"

\* C15: in a sweep over one or more points, every call of the finalize
\* callback receives one result per point, the
\* i-th being the one run_probe appended at Pi (whose XY it carries) during the
\* pass just made; a sweep begins one session, and after a "retry" it is at P1
\* with the session still Active; the session is ended once, after an answer
\* other than "retry".
C15_SweepPassResults ==
    (cmd = "start_probe" /\ probe_points # <<>>)
        => LET n == Len(probe_points)
           IN  /\ \A k \in 1..Len(callbacks) :
                      LET cb == callbacks[k]
                      IN  /\ Len(cb.results) = n
                          /\ Len(cb.taken) = n
                          /\ \A i \in 1..n :
                                 /\ cb.taken[i].point = i
                                 /\ cb.results[i] = cb.taken[i].result
                                 /\ cb.results[i][1] = <<probe_points[i][1], 1>>
                                 /\ cb.results[i][2] = <<probe_points[i][2], 1>>
                          /\ k < Len(callbacks) => cb.answer = "retry"
               /\ n_begins <= 1
               /\ cmd_pc \in {"raise_tool", "finalize", "move_next", "call_run_probe",
                              "run_probe", "end"}
                      => /\ multi_probe_pending
                         /\ n_begins = 1
                         /\ n_ends = 0
               /\ cmd_pc \in {"move_next", "call_run_probe", "run_probe"}
                      => /\ probe_num = Len(taken)
                         /\ probe_num < n
               /\ cmd_pc \in {"move_next", "call_run_probe"}
                      => Len(results) = probe_num
               /\ cmd_pc = "end" => callbacks[Len(callbacks)].answer # "retry"
               /\ cmd_pc = "done"
                      => /\ n_ends = 1
                         /\ ~multi_probe_pending
                         /\ callbacks[Len(callbacks)].answer # "retry"

\* A sweep over two points was retried once and has ended; the two passes gave
\* different results.
C15_Witness ==
    /\ cmd = "start_probe"
    /\ cmd_pc = "done"
    /\ Len(probe_points) = 2
    /\ Len(callbacks) = 2
    /\ callbacks[1].answer = "retry"
    /\ callbacks[1].results # callbacks[2].results
    /\ callbacks[2].results[1] # callbacks[2].results[2]

\* The move `m` is the inter-sample retract of run_probe from the contact
\* position `contact`: sampleRetractDistance against the sense of probing, no
\* other coordinate changed, at liftSpeed.
IsSampleRetract(m, contact) ==
    LET axis == AxisOf(direction)
    IN  /\ m.op = "manual_move"
        /\ m.site = "run_probe"
        /\ Coord(m.coord, axis)
               = Coord(contact, axis) - SenseOf(direction) * params.sample_retract_dist
        /\ \A a \in Axes \ {axis} : Coord(m.coord, a) = Coord(contact, a)
        /\ m.speed = params.lift_speed

\* C16: after an accepted sample that leaves the buffer below sampleCount, one
\* retract of sampleRetractDistance from the sample's contact position at
\* liftSpeed is made and the next bounce refinement follows it; after the
\* sample that brings the buffer to sampleCount the result is calculated with
\* no motion; a bounce refinement starts only at the beginning of run_probe or
\* after that retract, and run_probe moves the toolhead nowhere else.
C16_RetractBetweenSamples ==
    [][/\ (/\ pc = "check"
           /\ ~SpreadExceeds(positions, AxisOf(direction), params.samples_tolerance))
           => /\ pc' = IF Len(positions) < params.samples THEN "retract"
                       ELSE "calculate"
              /\ UNCHANGED <<toolhead_pos, last_move, positions>>
       /\ pc = "retract"
           => /\ IsSampleRetract(last_move', cycles[3].contact)
              /\ toolhead_pos' = last_move'.coord
              /\ pc' = "bouncing_probe"
              /\ UNCHANGED positions
       /\ pc' = "bouncing_probe" => pc \in {"idle", "retract"}
       /\ (pc = "calculate" /\ pc' = "idle") => UNCHANGED <<toolhead_pos, last_move>>
       /\ (last_move' # last_move /\ last_move'.site = "run_probe")
           => pc = "retract"]_vars

\* The second of three samples was accepted and the retract after it made.
C16_Witness ==
    /\ pc = "bouncing_probe"
    /\ params.samples = 3
    /\ Len(positions) = 2
    /\ retries = 0
    /\ last_move.site = "run_probe"
    /\ Coord(toolhead_pos, AxisOf(direction))
           = Coord(positions[2], AxisOf(direction))
                 - SenseOf(direction) * params.sample_retract_dist

\* C17 (as claimed): a tolerance violation with retries left increments
\* retries and empties the buffer, and the inter-sample retract is made only
\* after an accepted sample, never between the violating sample and the first
\* sample of the restarted point.
C17_NoRetractAfterRestart ==
    [][/\ (/\ pc = "check"
           /\ SpreadExceeds(positions, AxisOf(direction), params.samples_tolerance)
           /\ retries < params.samples_tolerance_retries)
           => /\ retries' = retries + 1
              /\ positions' = <<>>
       /\ (pc = "retract" /\ last_move'.site = "run_probe") => positions # <<>>]_vars

\* C17 (amended): a tolerance violation with retries left increments retries
\* and empties the buffer; the emptied buffer being below sampleCount, the
\* inter-sample retract is then made, from the violating sample's contact
\* position, before the first bounce refinement of the restarted point.
C17_RetractAfterRestart ==
    [][/\ (/\ pc = "check"
           /\ SpreadExceeds(positions, AxisOf(direction), params.samples_tolerance)
           /\ retries < params.samples_tolerance_retries)
           => /\ retries' = retries + 1
              /\ positions' = <<>>
              /\ pc' = "retract"
              /\ UNCHANGED <<toolhead_pos, last_move, results>>
       /\ (pc = "retract" /\ positions = <<>>)
           => /\ retries >= 1
              /\ IsSampleRetract(last_move', cycles[3].contact)
              /\ toolhead_pos' = last_move'.coord
              /\ pc' = "bouncing_probe"
              /\ positions' = <<>>]_vars

\* The retract after a retried violation was made: the buffer is empty and the
\* next bounce refinement is about to start.
C17_Witness ==
    /\ pc = "bouncing_probe"
    /\ retries = 1
    /\ positions = <<>>
    /\ n_samples >= 2
    /\ last_move.op = "manual_move"
    /\ last_move.site = "run_probe"

\* The errors with which run_probe aborts.
RunProbeErrors == {"timeout", "tolerance", "unhomed", "direction"}

\* C18: a run_probe that aborts with an error leaves the result buffer, the
\* pending flag and every hold as they were, the session Active; and the
\* session leaves Active only by end_probe_session or the forced cleanup.
C18_AbortKeepsSession ==
    [][/\ (/\ call' = "run_probe"
           /\ pc' = "idle"
           /\ error' \in RunProbeErrors)
           => /\ multi_probe_pending
              /\ UNCHANGED <<results, multi_probe_pending, multi, n_appended>>
       /\ (multi_probe_pending /\ ~multi_probe_pending')
           => call' \in {"end_probe_session", "_handle_command_error"}
       /\ (pc # "idle" /\ pc' = "idle" /\ error' # "none")
           => error' \in RunProbeErrors]_vars

\* The second run_probe of a session ended with a no-contact timeout: the
\* first one's result is buffered, the session Active and its hold acquired.
C18_Witness ==
    /\ pc = "idle"
    /\ call = "run_probe"
    /\ error = "timeout"
    /\ Len(results) = 1
    /\ multi_probe_pending
    /\ \E a \in Axes : multi[a] = "FIRST"

\* C19: a contact-detect move is issued only by a contact-detect attempt made
\* while x, y and z are homed; an attempt made while one of them is not fails
\* with the unhomed error and moves nothing, on each cycle of the refinement.
C19_NoProbingMoveUnhomed ==
    [][/\ (pc = "probe" /\ pc' # "probe")
           => IF {0, 1, 2} \subseteq homed_axes
              THEN /\ last_move'.op = "probing_move"
                   /\ error' # "unhomed"
              ELSE /\ pc' = "idle"
                   /\ error' = "unhomed"
                   /\ UNCHANGED <<toolhead_pos, last_move>>
       /\ (last_move'.op = "probing_move" /\ last_move' # last_move)
           => (pc = "probe" /\ {0, 1, 2} \subseteq homed_axes)]_vars

\* The homing of x alone was lost after the first cycle, y and z still homed:
\* the attempt of a later cycle failed and the last move is still the retract of
\* the cycle before.
C19_Witness ==
    /\ homed_axes = {1, 2}
    /\ pc = "idle"
    /\ call = "run_probe"
    /\ error = "unhomed"
    /\ last_move.op = "manual_move"
    /\ last_move.site = "_bouncing_probe"

\* C20 (as claimed): the target of a contact-detect move differs from the
\* current position only on the probing axis, where it is the current
\* coordinate plus or minus the maximum travel distance of the parameters in
\* effect for the call, clamped to the axis bounds.
C20_TargetFromCallParameters ==
    [][(pc = "probe" /\ pc' # "probe" /\ error' # "unhomed")
          => LET axis == AxisOf(direction)
                 cur == Coord(toolhead_pos, axis)
             IN  /\ last_move'.op = "probing_move"
                 /\ last_move'.coord
                        = SetAxis(toolhead_pos, axis,
                                  IF SenseOf(direction) > 0
                                  THEN Min(cur + params.max_distance,
                                           Coord(kin_status.axis_maximum, axis))
                                  ELSE Max(cur - params.max_distance,
                                           Coord(kin_status.axis_minimum, axis)))]_vars

\* C21: when every motion primitive returns, a call of run_probe ends: at any
\* point of the call it has completed at most
\* (samples_tolerance_retries + 1) * samples bounce refinements, the step that
\* leaves it either appends exactly one result without an error or raises the
\* tolerance error with the buffer of results as it was, and every call that
\* has begun does leave.
C21_RunProbeTerminates ==
    /\ [](pc # "idle" =>
             n_samples <= (params.samples_tolerance_retries + 1) * params.samples)
    /\ [][pc # "idle" /\ pc' = "idle" =>
             \/ /\ error' = "none"
                /\ Len(results') = Len(results) + 1
                /\ n_appended' = n_appended + 1
             \/ /\ error' = "tolerance"
                /\ results' = results
                /\ n_appended' = n_appended]_vars
    /\ (pc # "idle") ~> (pc = "idle")

\* A call that used its whole budget: with two or more samples per point and
\* one or more retries allowed, every attempt but the last broke the tolerance
\* on its last sample, and the last attempt filled the buffer.
C21_Witness ==
    /\ pc = "calculate"
    /\ params.samples >= 2
    /\ params.samples_tolerance_retries >= 1
    /\ retries = params.samples_tolerance_retries
    /\ n_samples = (params.samples_tolerance_retries + 1) * params.samples

\* C22 (as claimed): every contact-detect move of a command is made on the
\* axis the command's session holds.  With deactivate_on_each_sample off, the
\* wrapper of the axis resolved at start_probe_session is 'FIRST' and the
\* others are 'OFF' until end_probe_session resolves the same axis and sets it
\* back to 'OFF': so the wrapper that makes a contact-detect move is the one
\* that is not 'OFF', and the end of the session by the command itself leaves
\* every wrapper 'OFF'.
C22_MoveOnHeldAxis ==
    [][/\ (/\ cmd # "none"
           /\ ~stow_on_each_sample
           /\ pc = "probe"
           /\ last_move' # last_move
           /\ last_move'.op = "probing_move")
              => /\ multi[AxisOf(direction)] = "FIRST"
                 /\ \A a \in Axes \ {AxisOf(direction)} : multi[a] = "OFF"
       /\ (/\ cmd # "none"
           /\ multi_probe_pending
           /\ ~multi_probe_pending'
           /\ call' = "end_probe_session"
           /\ error' = "none")
              => \A a \in Axes : multi'[a] = "OFF"]_vars

\* C23 (as claimed): the activate and the deactivate script run in turn,
\* the activate script first: of the scripts run so far, the first is the
\* activate script and no two in a row are the same.
C23_DeployStowAlternate ==
    /\ Len(script_log) = 1 => script_log[1] = "activate_gcode"
    /\ Len(script_log) = 2 => script_log[1] # script_log[2]

=============================================================================
